---- MODULE Spec2Model ----
(***************************************************************************)
(* Model of the best-seller ingestion pipeline: the backfill script        *)
(* (init-db.js, src/unnamed/part_000 lines 106-517), the incremental       *)
(* update script (src/scripts/update-db.js) and the relational schema      *)
(* (schema.sql, src/unnamed/part_001) they write to.                       *)
(*                                                                         *)
(* The store is SQLite: one variable per table.  A process is one run of   *)
(* one script; the scripts are single threaded, so one loop iteration      *)
(* (fetch, transaction, sync_log row) is one atomic step.  The remote API  *)
(* is the environment: every response is chosen with \E.                   *)
(***************************************************************************)
EXTENDS Integers, Sequences, FiniteSets, TLC

(***************************************************************************)
(* Bounds of the model.                                                    *)
(***************************************************************************)
MaxRuns == 2          \* script runs started in one behaviour
MaxBookRows == 3      \* rows of the books table

(***************************************************************************)
(* Values.  Null is SQL NULL / JS null, undefined or "" (all falsy).       *)
(***************************************************************************)
Null == "null"
NullDate == 0         \* a NULL published_date (dates are day numbers)

Isbn13s == {Null, "13a", "13b"}
Isbn10s == {Null, "10a"}
Titles == {Null, "t1", "t2"}
Ranks == {Null, "r1", "r2"}

\* The isbns array of a book of a snapshot: its identifier aliases.
Alias1 == [isbn13 |-> "13a", isbn10 |-> "10a"]
Alias2 == [isbn13 |-> "13b", isbn10 |-> Null]
AliasLists == {<<>>, <<Alias1>>, <<Alias1, Alias2>>}

\* A book of a remote snapshot: the fields of bookData the scripts read.
\* title stands for every descriptive field (they are written together).
BookData == [primary_isbn13 : Isbn13s, primary_isbn10 : Isbn10s,
             title : Titles, rank : Ranks, isbns : AliasLists]

VARIABLES
    lists,        \* table lists: set of rows
    books,        \* table books: sequence of rows, book_id = index
    isbns,        \* table isbns: sequence of rows, isbn_id = index
    rankings,     \* table rankings: set of rows
    sync_log,     \* table sync_log: sequence of rows, sync_id = index
    seq,          \* sqlite_sequence: last AUTOINCREMENT id of lists and rankings
    pc,           \* position of the running script
    script,       \* "none", "init" or "update"
    options,      \* the command line options of the running script
    requestCount, \* module-level counter of the running script
    queue,        \* lists still to process in this run
    cur,          \* the list being processed: its name and list_id
    dates,        \* checkpoint dates still to fetch for the current list
    errorCount,   \* updateList failures counted by update-db main
    exitCode,     \* exit status of the last finished run (Null while running)
    runs,         \* number of runs started
    selected,     \* (list, date) pairs this run set out to fetch (observation only)
    attempted,    \* (list, date) pairs this run has attempted (observation only)
    last,         \* what the last attempt did (observation only)
    calls,        \* the last two resolver calls of SpecResolve (observation only)
    nullIds,      \* ids returned for identifierless records (observation only)
    weekly,       \* SpecDates: a date range, a time zone and its checkpoint dates
    net,          \* SpecFetch: the clock and the calls of the fetch client
    reply         \* SpecQuery: the last request of the query API and its response

vars == <<lists, books, isbns, rankings, sync_log, seq, pc, script, options,
          requestCount, queue, cur, dates, errorCount, exitCode, runs,
          selected, attempted, last, calls, nullIds, weekly, net, reply>>

storeVars == <<lists, books, isbns, rankings, sync_log, seq>>
procVars == <<pc, script, options, requestCount, queue, cur, dates, errorCount,
              exitCode, runs, selected, attempted>>

(***************************************************************************)
(* The store as one value, so that a transaction can be rolled back.       *)
(***************************************************************************)
Store == [lists |-> lists, books |-> books, isbns |-> isbns,
          rankings |-> rankings, sync_log |-> sync_log, seq |-> seq]

Commit(d) ==
    /\ lists' = d.lists
    /\ books' = d.books
    /\ isbns' = d.isbns
    /\ rankings' = d.rankings
    /\ sync_log' = d.sync_log
    /\ seq' = d.seq

(***************************************************************************)
(* findOrCreateBook                                                        *)
(***************************************************************************)
\* JS truthiness of an identifier: null, undefined and "" are falsy.
Truthy(x) == x # Null

BookIds(d) == 1..Len(d.books)

\* SELECT book_id FROM books WHERE primary_isbn13 = ?   (.get: first row or none)
SelectByIsbn13(d, v) == {i \in BookIds(d) : d.books[i].primary_isbn13 = v /\ v # Null}

\* SELECT book_id FROM books WHERE primary_isbn10 = ?
SelectByIsbn10(d, v) == {i \in BookIds(d) : d.books[i].primary_isbn10 = v /\ v # Null}

Min(S) == CHOOSE x \in S : \A y \in S : x <= y

\* FindBook without the fallback to primary_isbn10.
FindBookIsbn13Only(d, bookData) ==
    LET by13 == IF Truthy(bookData.primary_isbn13)
                THEN SelectByIsbn13(d, bookData.primary_isbn13) ELSE {}
    IN  IF by13 # {} THEN {Min(by13)} ELSE {}

\* FindBook matching absent identifiers too (WHERE primary_isbn13 IS ?, no
\* truthiness test): identifierless records find identifierless rows.
FindBookMatchingNull(d, bookData) ==
    LET by13 == {i \in BookIds(d) :
                   d.books[i].primary_isbn13 = bookData.primary_isbn13}
        by10 == {i \in BookIds(d) :
                   d.books[i].primary_isbn10 = bookData.primary_isbn10}
    IN  IF by13 # {} THEN {Min(by13)}
        ELSE IF by10 # {} THEN {Min(by10)}
        ELSE {}

\* FindBook that looks a record up by its isbn10 alone.
FindBookIsbn10Only(d, bookData) ==
    LET by10 == IF Truthy(bookData.primary_isbn10)
                THEN SelectByIsbn10(d, bookData.primary_isbn10) ELSE {}
    IN  IF by10 # {} THEN {Min(by10)} ELSE {}

\* The lookup of findOrCreateBook: the set holding the found book_id, or {}.
FindBook(d, bookData) ==
    LET by13 == IF Truthy(bookData.primary_isbn13)
                THEN SelectByIsbn13(d, bookData.primary_isbn13) ELSE {}
        by10 == IF by13 = {} /\ Truthy(bookData.primary_isbn10)
                THEN SelectByIsbn10(d, bookData.primary_isbn10) ELSE {}
    IN  IF by13 # {} THEN {Min(by13)}
        ELSE IF by10 # {} THEN {Min(by10)}
        ELSE {}

\* UpdateBook that leaves the stored descriptive fields alone (first write wins).
UpdateBookKeepFields(d, id, bookData) == d

\* UPDATE books SET title = ?, ... WHERE book_id = ?
UpdateBook(d, id, bookData) ==
    [d EXCEPT !.books[id].title = bookData.title]

\* INSERT INTO books (primary_isbn13, primary_isbn10, title, ...)
InsertBook(d, bookData) ==
    [d EXCEPT !.books = Append(@, [primary_isbn13 |-> bookData.primary_isbn13,
                                   primary_isbn10 |-> bookData.primary_isbn10,
                                   title |-> bookData.title])]

\* A book creation that drops the isbns array of the record.
InsertIsbnsNone(d, id, aliases) == d

\* for (const isbn of bookData.isbns) INSERT INTO isbns (book_id, isbn13, isbn10)
InsertIsbns(d, id, aliases) ==
    [d EXCEPT !.isbns = @ \o [i \in 1..Len(aliases) |->
                                [book_id |-> id,
                                 isbn13 |-> aliases[i].isbn13,
                                 isbn10 |-> aliases[i].isbn10]]]

\* findOrCreateBook(db, bookData): [ok, d, id].  ok = FALSE: the statement threw
\* (books.title is NOT NULL) and nothing was written.
FindOrCreateBook(d, bookData) ==
    LET found == FindBook(d, bookData)
    IN  IF bookData.title = Null
        THEN [ok |-> FALSE, d |-> d, id |-> 0]
        ELSE IF found # {}
        THEN LET id == CHOOSE i \in found : TRUE
             IN  [ok |-> TRUE, d |-> UpdateBook(d, id, bookData), id |-> id]
        ELSE [ok |-> TRUE,
              d |-> InsertIsbns(InsertBook(d, bookData), Len(d.books) + 1,
                                bookData.isbns),
              id |-> Len(d.books) + 1]

(***************************************************************************)
(* The remote API (the environment).                                       *)
(***************************************************************************)
ListNames == {"A", "B"}

\* The descriptors /lists/names.json can return.  List A spans two weekly
\* checkpoints, list B one.
Descriptor(name) ==
    [list_name_encoded |-> name,
     oldest_published_date |-> IF name = "A" THEN 1 ELSE 8,
     newest_published_date |-> 8]

Catalogs == {<<>>, <<Descriptor("A")>>, <<Descriptor("A"), Descriptor("B")>>}

PublishedDates == {1, 8}

\* The books of the snapshots: a work with an identifier under two
\* observations, an identifierless work, a book the books table rejects
\* (title is NOT NULL) and one the rankings table rejects (rank is NOT NULL).
BookX(rank) ==
    [primary_isbn13 |-> "13a", primary_isbn10 |-> Null, title |-> "t1", rank |-> rank,
     isbns |-> <<Alias1>>]
BookY ==
    [primary_isbn13 |-> Null, primary_isbn10 |-> Null, title |-> "t2", rank |-> "r1",
     isbns |-> <<>>]
BookNoTitle ==
    [primary_isbn13 |-> "13b", primary_isbn10 |-> Null, title |-> Null, rank |-> "r1",
     isbns |-> <<Alias1, Alias2>>]
BookNoRank ==
    [primary_isbn13 |-> "13b", primary_isbn10 |-> Null, title |-> "t1", rank |-> Null,
     isbns |-> <<>>]

\* The books arrays a snapshot response can carry.
Snapshots ==
    {<<>>,
     <<BookX("r1")>>,
     <<BookX("r2")>>,
     <<BookX("r1"), BookY>>,
     <<BookX("r1"), BookNoTitle>>,
     <<BookNoRank, BookX("r1")>>}

\* What a fetch of a snapshot URL can come back with: a non-success status, a
\* body without results.books, or a snapshot.
Responses ==
    {[kind |-> "http", books |-> <<>>, published_date |-> NullDate],
     [kind |-> "nodata", books |-> <<>>, published_date |-> NullDate]}
    \cup [kind : {"ok"}, books : Snapshots,
          published_date : PublishedDates]

(***************************************************************************)
(* rateLimitedFetch                                                        *)
(***************************************************************************)
\* The daily ceiling of init-db.js (500 in the source, scaled down so that a
\* run of the model can reach it).
MAX_REQUESTS_PER_DAY == 3

\* RateLimitedFetchInit with the test requestCount > MAX_REQUESTS_PER_DAY.
RateLimitedFetchInitOffByOne(count, response) ==
    IF count > MAX_REQUESTS_PER_DAY
    THEN [count |-> count, result |-> "quota"]
    ELSE [count |-> count + 1, result |-> response.kind]

\* init-db.js: throws before the call once the ceiling is reached, else counts
\* the call and throws on a non-success response.  [count, result]
RateLimitedFetchInit(count, response) ==
    IF count >= MAX_REQUESTS_PER_DAY
    THEN [count |-> count, result |-> "quota"]
    ELSE [count |-> count + 1, result |-> response.kind]

\* update-db.js: no ceiling.
RateLimitedFetchUpdate(count, response) ==
    [count |-> count + 1, result |-> response.kind]

\* The delay before every call (12000 ms in the source; the clock of the
\* model counts units of 4 s, so a minute is 15 units).
RATE_LIMIT_DELAY == 3

\* A sleep that is over at once (sleep without await, or a delay of 0).
SleepOverAtOnce(now, from) == TRUE

\* await sleep(RATE_LIMIT_DELAY): setTimeout fires once the delay has passed.
SleepOver(now, from) == now - from >= RATE_LIMIT_DELAY

(***************************************************************************)
(* saveLists                                                               *)
(***************************************************************************)
\* A catalog sync that mirrors the remote catalog: the row of every other
\* list is removed.
ReplaceListMirror(d, list) ==
    LET id == d.seq.lists + 1
    IN  [d EXCEPT
           !.lists = {[list_id |-> id,
                       list_name_encoded |-> list.list_name_encoded,
                       oldest_published_date |-> list.oldest_published_date,
                       newest_published_date |-> list.newest_published_date]},
           !.rankings = {},
           !.seq.lists = id]

\* INSERT OR REPLACE INTO lists: the row with the same list_name_encoded
\* (UNIQUE) is deleted, its rankings go with it (ON DELETE CASCADE; foreign
\* keys are enforced by better-sqlite3), and a row with a fresh list_id is
\* inserted.
ReplaceList(d, list) ==
    LET old == {l \in d.lists : l.list_name_encoded = list.list_name_encoded}
        oldIds == {l.list_id : l \in old}
        id == d.seq.lists + 1
    IN  [d EXCEPT
           !.lists = (@ \ old) \cup
                     {[list_id |-> id,
                       list_name_encoded |-> list.list_name_encoded,
                       oldest_published_date |-> list.oldest_published_date,
                       newest_published_date |-> list.newest_published_date]},
           !.rankings = {r \in @ : r.list_id \notin oldIds},
           !.seq.lists = id]

RECURSIVE SaveLists(_, _)
SaveLists(d, ls) ==
    IF ls = <<>> THEN d ELSE SaveLists(ReplaceList(d, Head(ls)), Tail(ls))

\* SELECT list_id FROM lists WHERE list_name_encoded = ?   (0: no row)
ListIdOf(d, name) ==
    LET rows == {l \in d.lists : l.list_name_encoded = name}
    IN  IF rows = {} THEN 0 ELSE (CHOOSE l \in rows : TRUE).list_id

(***************************************************************************)
(* The checkpoint transaction (saveData) of both scripts                   *)
(***************************************************************************)
SameTriple(r, listId, bookId, publishedDate) ==
    r.list_id = listId /\ r.book_id = bookId /\ r.published_date = publishedDate

\* InsertRanking without the UNIQUE(list_id, book_id, published_date)
\* constraint: the new row is added beside the old one.
InsertRankingNoUnique(d, listId, bookId, publishedDate, bookData) ==
    LET old == {r \in d.rankings : SameTriple(r, listId, bookId, publishedDate)}
        id == d.seq.rankings + 1
    IN  IF bookData.rank = Null
        THEN [ok |-> FALSE, d |-> d, replaced |-> 0]
        ELSE [ok |-> TRUE,
              d |-> [d EXCEPT !.rankings = @ \cup
                                  {[ranking_id |-> id, list_id |-> listId,
                                    book_id |-> bookId,
                                    published_date |-> publishedDate,
                                    rank |-> bookData.rank]},
                              !.seq.rankings = id],
              replaced |-> Cardinality(old)]

\* INSERT OR REPLACE INTO rankings: [ok, d, replaced].  ok = FALSE: the
\* statement threw (rankings.rank is NOT NULL).  A row with the same
\* (list_id, book_id, published_date) is deleted and a row with a fresh
\* ranking_id takes its place.
InsertRanking(d, listId, bookId, publishedDate, bookData) ==
    LET old == {r \in d.rankings : SameTriple(r, listId, bookId, publishedDate)}
        id == d.seq.rankings + 1
    IN  IF bookData.rank = Null
        THEN [ok |-> FALSE, d |-> d, replaced |-> 0]
        ELSE [ok |-> TRUE,
              d |-> [d EXCEPT !.rankings = (@ \ old) \cup
                                  {[ranking_id |-> id, list_id |-> listId,
                                    book_id |-> bookId,
                                    published_date |-> publishedDate,
                                    rank |-> bookData.rank]},
                              !.seq.rankings = id],
              replaced |-> Cardinality(old)]

\* InsertSyncLog as an upsert keyed by (sync_type, list_name_encoded): the
\* row of an earlier attempt on the same list is overwritten.
InsertSyncLogUpsert(d, syncType, name, publishedDate, recordsAdded, status, message) ==
    LET row == [sync_type |-> syncType, list_name_encoded |-> name,
                published_date |-> publishedDate, records_added |-> recordsAdded,
                status |-> status, error_message |-> message]
        olds == {i \in 1..Len(d.sync_log) :
                   /\ d.sync_log[i].sync_type = syncType
                   /\ d.sync_log[i].list_name_encoded = name}
    IN  IF olds = {} THEN [d EXCEPT !.sync_log = Append(@, row)]
        ELSE [d EXCEPT !.sync_log[Min(olds)] = row]

\* INSERT INTO sync_log (...); records_added defaults to 0, error_message to NULL.
InsertSyncLog(d, syncType, name, publishedDate, recordsAdded, status, message) ==
    [d EXCEPT !.sync_log = Append(@, [sync_type |-> syncType,
                                      list_name_encoded |-> name,
                                      published_date |-> publishedDate,
                                      records_added |-> recordsAdded,
                                      status |-> status,
                                      error_message |-> message])]

\* A catch block that swallows the error without a sync_log row.
LogErrorNothing(d, syncType, name, date, message) == d

\* The catch block of an attempt: the error row of sync_log, written outside
\* the (rolled back) transaction.  init-db.js stores the checkpoint date,
\* update-db.js leaves published_date NULL.
LogError(d, syncType, name, date, message) ==
    InsertSyncLog(d, syncType, name, date, 0, "error", message)

\* A loop that issues a failed element again (a retry).
RestAfterRetry(todo, outcome) == IF outcome = "error" THEN todo ELSE Tail(todo)

\* A loop that gives up on its remaining elements after a failed one.
RestAfterAbort(todo, outcome) == IF outcome = "error" THEN <<>> ELSE Tail(todo)

\* The loops of fetchListHistory (over dates) and of update-db main (over
\* lists) go on to the next element whatever the outcome of this one.
RestAfter(todo, outcome) == Tail(todo)

\* The for loop of saveData over the books of the snapshot.  t carries the
\* store and the counters; t.ok = FALSE once findOrCreateBook has thrown.
\* A throwing ranking insert is caught inside the loop.
RECURSIVE SaveBooks(_, _, _, _)
SaveBooks(t, listId, publishedDate, bs) ==
    IF bs = <<>> \/ ~t.ok THEN t
    ELSE LET b == FindOrCreateBook(t.d, Head(bs))
             r == InsertRanking(b.d, listId, b.id, publishedDate, Head(bs))
         IN  IF ~b.ok THEN [t EXCEPT !.ok = FALSE]
             ELSE SaveBooks(
                    [ok |-> TRUE, d |-> r.d,
                     rankingsAdded |-> t.rankingsAdded + (IF r.ok THEN 1 ELSE 0),
                     replaced |-> t.replaced + r.replaced,
                     rankFailed |-> t.rankFailed + (IF r.ok THEN 0 ELSE 1)],
                    listId, publishedDate, Tail(bs))

\* db.transaction(saveData)(): the loop, then the success row of sync_log;
\* when the function throws the transaction is rolled back (t.d = d).
\* A saveData whose success row is written ahead of the transaction, so that
\* a rollback leaves it in the log.
SaveDataLogsAhead(d, syncType, name, listId, publishedDate, bs) ==
    LET t == SaveBooks([ok |-> TRUE, d |-> d, rankingsAdded |-> 0,
                        replaced |-> 0, rankFailed |-> 0],
                       listId, publishedDate, bs)
    IN  IF t.ok
        THEN [t EXCEPT !.d = InsertSyncLog(t.d, syncType, name, publishedDate,
                                           t.rankingsAdded, "success", Null)]
        ELSE [t EXCEPT !.d = InsertSyncLog(d, syncType, name, publishedDate,
                                           0, "success", Null),
                       !.rankingsAdded = 0, !.replaced = 0]

SaveData(d, syncType, name, listId, publishedDate, bs) ==
    LET t == SaveBooks([ok |-> TRUE, d |-> d, rankingsAdded |-> 0,
                        replaced |-> 0, rankFailed |-> 0],
                       listId, publishedDate, bs)
    IN  IF t.ok
        THEN [t EXCEPT !.d = InsertSyncLog(t.d, syncType, name, publishedDate,
                                           t.rankingsAdded, "success", Null)]
        ELSE [t EXCEPT !.d = d, !.rankingsAdded = 0, !.replaced = 0]

(***************************************************************************)
(* The checkpoint dates of fetchListHistory.  A Date is a number of hours  *)
(* since 00:00 UTC of day 0; a date string "YYYY-MM-DD" is a day number.   *)
(* The dates are parsed as UTC, stepped in the local time of the process   *)
(* (setDate / getDate) and printed in UTC (toISOString).                   *)
(***************************************************************************)
\* The time zones of the process: one without and one with daylight saving.
Zones == {"UTC", "America/New_York"}

\* The days on which daylight saving time starts and ends (at 02:00 local).
DstStartDay == 26
DstEndDay == 54

\* Whether a local time falls in daylight saving time.
InDst(zone, localHours) ==
    /\ zone = "America/New_York"
    /\ localHours >= 24 * DstStartDay + 2
    /\ localHours < 24 * DstEndDay + 2

\* Local time minus UTC, in hours, at a local time.
OffsetAt(zone, localHours) ==
    IF zone = "UTC" THEN 0
    ELSE IF InDst(zone, localHours) THEN 0 - 4 ELSE 0 - 5

\* LocalTime(t): the local time of a UTC time (the transitions are at 07:00
\* and 06:00 UTC).
LocalTime(zone, t) ==
    IF zone = "UTC" THEN t
    ELSE IF t >= 24 * DstStartDay + 7 /\ t < 24 * DstEndDay + 6
         THEN t - 4 ELSE t - 5

\* UTC(localHours): the UTC time of a local time.
UTCTime(zone, localHours) == localHours - OffsetAt(zone, localHours)

\* new Date("YYYY-MM-DD"): a date-only string is parsed as 00:00 UTC.
ParseDate(day) == 24 * day

\* date.toISOString().split('T')[0]: the UTC day of the time.
ToISODate(t) == t \div 24

\* currentDate.setDate(currentDate.getDate() + 7): seven days later at the
\* same local time of day.
AddWeek(zone, t) == UTCTime(zone, LocalTime(zone, t) + 7 * 24)

\* while (currentDate <= endDate) { dates.push(...); currentDate.setDate(...) }
RECURSIVE WeeklyDates(_, _, _)
WeeklyDates(zone, currentDate, endDate) ==
    IF currentDate <= endDate
    THEN <<ToISODate(currentDate)>>
         \o WeeklyDates(zone, AddWeek(zone, currentDate), endDate)
    ELSE <<>>

(***************************************************************************)
(* Initial state: the database file with the schema applied (initDatabase) *)
(* and no rows; no script running.                                         *)
(***************************************************************************)
NoOptions == [force |-> FALSE, dryRun |-> FALSE, lists |-> <<>>,
              since |-> NullDate]
NoCur == [name |-> Null, list_id |-> 0]
NoLast == [kind |-> "none", list |-> Null, date |-> NullDate, fetch |-> "none",
           outcome |-> "none", published_date |-> NullDate, books |-> 0,
           rankingsAdded |-> 0, replaced |-> 0, rankFailed |-> 0, failures |-> 0]

NoWeekly == [oldest |-> 0, newest |-> 0, since |-> NullDate, zone |-> "UTC",
             dates |-> <<>>]
NoNet == [now |-> 0, phase |-> "idle", inFlight |-> 0, started |-> <<>>,
          sleepFrom |-> 0, result |-> "none"]

\* A request of the query API (req.method, req.query) and a response
\* (res.status(...).json(...)): the status, the error text, the message as
\* <<text, key>>, and the published_date and the count of the result.
NoRequest == [method |-> Null, action |-> Null, list |-> Null, date |-> NullDate,
              isbn |-> Null, q |-> Null]
NoMessage == <<>>
NoResult == [published_date |-> NullDate, count |-> 0]
Res(status, error, message, result) ==
    [status |-> status, error |-> error, message |-> message, result |-> result]
NoReply == [req |-> NoRequest, opens |-> TRUE,
               res |-> Res(0, Null, NoMessage, NoResult)]

Init ==
    /\ lists = {}
    /\ books = <<>>
    /\ isbns = <<>>
    /\ rankings = {}
    /\ sync_log = <<>>
    /\ seq = [lists |-> 0, rankings |-> 0]
    /\ pc = "idle"
    /\ script = "none"
    /\ options = NoOptions
    /\ requestCount = 0
    /\ queue = <<>>
    /\ cur = NoCur
    /\ dates = <<>>
    /\ errorCount = 0
    /\ exitCode = Null
    /\ runs = 0
    /\ selected = {}
    /\ attempted = {}
    /\ last = NoLast
    /\ calls = <<>>
    /\ nullIds = <<>>
    /\ weekly = NoWeekly
    /\ net = NoNet
    /\ reply = NoReply

(***************************************************************************)
(* init-db.js                                                              *)
(***************************************************************************)
\* (--since is varied in SpecDates)
InitOptions == [force : {FALSE}, dryRun : BOOLEAN, lists : {<<>>, <<"B">>},
                since : {NullDate}]
UpdateOptions == [force : BOOLEAN, dryRun : {FALSE}, lists : {<<>>},
                  since : {NullDate}]

SeqToSet(q) == {q[i] : i \in DOMAIN q}

RECURSIVE FilterSeq(_, _)
FilterSeq(q, S) ==
    IF q = <<>> THEN <<>>
    ELSE IF Head(q).list_name_encoded \in S
         THEN <<Head(q)>> \o FilterSeq(Tail(q), S)
         ELSE FilterSeq(Tail(q), S)

\* options.lists ? lists.filter(...) : lists
ListsToFetch(ls, opts) ==
    IF opts.lists = <<>> THEN ls ELSE FilterSeq(ls, SeqToSet(opts.lists))

\* The checkpoint dates of a list in a process running in zone (no --since).
DatesOf(list, sinceDate, zone) ==
    WeeklyDates(zone,
                IF sinceDate # NullDate
                THEN ParseDate(sinceDate)
                ELSE ParseDate(list.oldest_published_date),
                ParseDate(list.newest_published_date))

PairsOf(ls, sinceDate, zone) ==
    UNION {{<<ls[i].list_name_encoded, dt>> :
              dt \in SeqToSet(DatesOf(ls[i], sinceDate, zone))} :
           i \in DOMAIN ls}

Attempt(kind, name, date, fetch, outcome, publishedDate, n, t) ==
    [kind |-> kind, list |-> name, date |-> date, fetch |-> fetch,
     outcome |-> outcome, published_date |-> publishedDate, books |-> n,
     rankingsAdded |-> t.rankingsAdded, replaced |-> t.replaced,
     rankFailed |-> t.rankFailed,
     failures |-> last.failures + (IF outcome = "error" THEN 1 ELSE 0)]

NoCounts == [rankingsAdded |-> 0, replaced |-> 0, rankFailed |-> 0]

\* main() of init-db.js up to fetchListNames.
StartInit(opts) ==
    /\ pc = "idle"
    /\ runs < MaxRuns
    /\ runs' = runs + 1
    /\ script' = "init"
    /\ options' = opts
    /\ requestCount' = 0
    /\ errorCount' = 0
    /\ exitCode' = Null
    /\ selected' = {}
    /\ attempted' = {}
    /\ pc' = "names"
    /\ last' = NoLast
    /\ UNCHANGED <<storeVars, queue, cur, dates, calls, nullIds, weekly, net,
                   reply>>

\* A script that does not look at --dry-run.
DryRunIgnored(opts) == FALSE

\* if (options.dryRun) of fetchListNames: return [] before any call.
DryRun(opts) == opts.dryRun

\* --dry-run: fetchListNames returns [], nothing is saved, "No lists to fetch".
DryRunNames ==
    /\ pc = "names"
    /\ DryRun(options)
    /\ pc' = "idle"
    /\ exitCode' = "0"
    /\ UNCHANGED <<storeVars, script, options, requestCount, queue, cur, dates,
                   errorCount, runs, selected, attempted, last, calls, nullIds, weekly,
                   net, reply>>

\* fetchListNames throws (non-success response): the catch of main exits 1.
FetchListNamesFails ==
    /\ pc = "names"
    /\ ~DryRun(options)
    /\ LET f == RateLimitedFetchInit(requestCount,
                                     [kind |-> "http", books |-> <<>>,
                                      published_date |-> NullDate])
       IN  requestCount' = f.count
    /\ pc' = "idle"
    /\ exitCode' = "1"
    /\ UNCHANGED <<storeVars, script, options, queue, cur, dates, errorCount, runs,
                   selected, attempted, last, calls, nullIds, weekly, net,
                   reply>>

\* fetchListNames, saveLists and the --lists filter.  zone is the time zone
\* of the process (it decides the pairs the run sets out to fetch).
FetchListNames(catalog, zone) ==
    /\ pc = "names"
    /\ ~DryRun(options)
    /\ LET f == RateLimitedFetchInit(requestCount,
                                     [kind |-> "ok", books |-> <<>>,
                                      published_date |-> NullDate])
           d == IF Len(catalog) > 0 THEN SaveLists(Store, catalog) ELSE Store
           listsToFetch == ListsToFetch(catalog, options)
       IN  /\ f.result = "ok"
           /\ requestCount' = f.count
           /\ Commit(d)
           /\ queue' = listsToFetch
           /\ selected' = PairsOf(listsToFetch, options.since, zone)
           /\ IF listsToFetch = <<>>
              THEN pc' = "idle" /\ exitCode' = "0"
              ELSE pc' = "lists" /\ exitCode' = exitCode
    /\ UNCHANGED <<script, options, cur, dates, errorCount, runs, attempted, last,
                   calls, nullIds, weekly, net, reply>>

\* fetchListHistory up to its loop: the list_id lookup and the checkpoint
\* dates, computed in the time zone of the process.
BeginList(zone) ==
    /\ pc = "lists"
    /\ script = "init"
    /\ queue # <<>>
    /\ LET list == Head(queue)
           listId == ListIdOf(Store, list.list_name_encoded)
           ds == DatesOf(list, options.since, zone)
       IN  /\ queue' = Tail(queue)
           /\ IF listId = 0 \/ ds = <<>>
              THEN pc' = "lists" /\ cur' = NoCur /\ dates' = <<>>
              ELSE /\ pc' = "dates"
                   /\ cur' = [name |-> list.list_name_encoded, list_id |-> listId]
                   /\ dates' = ds
    /\ UNCHANGED <<storeVars, script, options, requestCount, errorCount, exitCode,
                   runs, selected, attempted, last, calls, nullIds, weekly, net,
                   reply>>

\* One iteration of the loop of fetchListHistory over response.
Checkpoint(response) ==
    /\ pc = "dates"
    /\ script = "init"
    /\ dates # <<>>
    /\ LET date == Head(dates)
           f == RateLimitedFetchInit(requestCount, response)
           t == SaveData(Store, "init", cur.name, cur.list_id,
                         response.published_date, response.books)
           n == Len(response.books)
       IN  /\ requestCount' = f.count
           /\ attempted' = attempted \cup {<<cur.name, date>>}
           /\ CASE f.result \in {"quota", "http"} ->
                    \* catch: the error row
                    /\ Commit(LogError(Store, "init", cur.name, date, f.result))
                    /\ last' = Attempt("init", cur.name, date, f.result, "error",
                                       NullDate, 0, NoCounts)
                [] f.result = "nodata" ->
                    \* continue
                    /\ UNCHANGED storeVars
                    /\ last' = Attempt("init", cur.name, date, "nodata", "nodata",
                                       NullDate, 0, NoCounts)
                [] f.result = "ok" /\ t.ok ->
                    /\ Len(t.d.books) <= MaxBookRows
                    /\ Commit(t.d)
                    /\ last' = Attempt("init", cur.name, date, "ok", "success",
                                       response.published_date, n, t)
                [] f.result = "ok" /\ ~t.ok ->
                    \* saveData threw: rolled back, then the error row
                    /\ Commit(LogError(t.d, "init", cur.name, date, "write"))
                    /\ last' = Attempt("init", cur.name, date, "ok", "error",
                                       response.published_date, n, t)
    /\ dates' = RestAfter(dates, last'.outcome)
    /\ pc' = IF dates' = <<>> THEN "lists" ELSE "dates"
    /\ UNCHANGED <<script, options, queue, cur, errorCount, exitCode, runs,
                   selected, calls, nullIds, weekly, net, reply>>

\* The end of main of init-db.js: statistics, db.close(), exit status 0.
FinishInit ==
    /\ pc = "lists"
    /\ script = "init"
    /\ queue = <<>>
    /\ pc' = "idle"
    /\ exitCode' = "0"
    /\ UNCHANGED <<storeVars, script, options, requestCount, queue, cur, dates,
                   errorCount, runs, selected, attempted, last, calls, nullIds, weekly,
                   net, reply>>

(***************************************************************************)
(* update-db.js                                                            *)
(***************************************************************************)
\* The date of an update attempt: the URL asks for lists/current.
Current == 0

\* SELECT list_name_encoded, display_name FROM lists ORDER BY display_name
RECURSIVE SortedNames(_)
SortedNames(S) ==
    IF S = {} THEN <<>>
    ELSE LET m == CHOOSE x \in S : \A y \in S : x = y \/ (x = "A" /\ y = "B")
         IN  <<m>> \o SortedNames(S \ {m})

\* main() of update-db.js up to its loop.
StartUpdate(opts) ==
    /\ pc = "idle"
    /\ runs < MaxRuns
    /\ runs' = runs + 1
    /\ script' = "update"
    /\ options' = opts
    /\ requestCount' = 0
    /\ errorCount' = 0
    /\ exitCode' = Null
    /\ LET names == SortedNames({l.list_name_encoded : l \in lists})
       IN  /\ queue' = [i \in DOMAIN names |-> [list_name_encoded |-> names[i]]]
           /\ selected' = {<<names[i], Current>> : i \in DOMAIN names}
    /\ attempted' = {}
    /\ pc' = "lists"
    /\ last' = NoLast
    /\ UNCHANGED <<storeVars, cur, dates, calls, nullIds, weekly, net, reply>>

\* A skip test that never skips (every update rewrites the snapshot).
AlreadyHaveNever(existing, opts) == FALSE

\* A skip test that does not read the --force option.
AlreadyHaveIgnoringForce(existing, opts) == existing > 0

\* if (existing.count > 0 && !options.force): the snapshot is already stored.
AlreadyHave(existing, opts) == existing > 0 /\ ~opts.force

\* updateList for the next list over response, and main's counting of its result.
UpdateList(response) ==
    /\ pc = "lists"
    /\ script = "update"
    /\ queue # <<>>
    /\ LET name == Head(queue).list_name_encoded
           listId == ListIdOf(Store, name)
           f == RateLimitedFetchUpdate(requestCount, response)
           existing == Cardinality({r \in rankings :
                          r.list_id = listId /\
                          r.published_date = response.published_date})
           t == SaveData(Store, "update", name, listId,
                         response.published_date, response.books)
           n == Len(response.books)
       IN  /\ attempted' = attempted \cup {<<name, Current>>}
           /\ CASE listId = 0 ->
                    /\ UNCHANGED <<storeVars, requestCount>>
                    /\ errorCount' = errorCount + 1
                    /\ last' = Attempt("update", name, Current, "none", "notfound",
                                       NullDate, 0, NoCounts)
                [] listId # 0 /\ f.result = "http" ->
                    /\ requestCount' = f.count
                    /\ Commit(LogError(Store, "update", name, NullDate, "http"))
                    /\ errorCount' = errorCount + 1
                    /\ last' = Attempt("update", name, Current, "http", "error",
                                       NullDate, 0, NoCounts)
                [] listId # 0 /\ f.result = "nodata" ->
                    /\ requestCount' = f.count
                    /\ UNCHANGED storeVars
                    /\ errorCount' = errorCount + 1
                    /\ last' = Attempt("update", name, Current, "nodata", "nodata",
                                       NullDate, 0, NoCounts)
                [] listId # 0 /\ f.result = "ok" /\ AlreadyHave(existing, options) ->
                    /\ requestCount' = f.count
                    /\ UNCHANGED storeVars
                    /\ errorCount' = errorCount
                    /\ last' = Attempt("update", name, Current, "ok", "skipped",
                                       response.published_date, n, NoCounts)
                [] listId # 0 /\ f.result = "ok" /\ ~AlreadyHave(existing, options)
                     /\ t.ok ->
                    /\ requestCount' = f.count
                    /\ Len(t.d.books) <= MaxBookRows
                    /\ Commit(t.d)
                    /\ errorCount' = errorCount
                    /\ last' = Attempt("update", name, Current, "ok", "success",
                                       response.published_date, n, t)
                [] listId # 0 /\ f.result = "ok" /\ ~AlreadyHave(existing, options)
                     /\ ~t.ok ->
                    /\ requestCount' = f.count
                    /\ Commit(LogError(t.d, "update", name, NullDate, "write"))
                    /\ errorCount' = errorCount + 1
                    /\ last' = Attempt("update", name, Current, "ok", "error",
                                       response.published_date, n, t)
    /\ queue' = RestAfter(queue, last'.outcome)
    /\ UNCHANGED <<pc, script, options, cur, dates, exitCode, runs, selected,
                   calls, nullIds, weekly, net, reply>>

\* The end of main of update-db.js: exit status 1 when a list failed.
FinishUpdate ==
    /\ pc = "lists"
    /\ script = "update"
    /\ queue = <<>>
    /\ pc' = "idle"
    /\ exitCode' = IF errorCount > 0 THEN "1" ELSE "0"
    /\ UNCHANGED <<storeVars, script, options, requestCount, queue, cur, dates,
                   errorCount, runs, selected, attempted, last, calls, nullIds, weekly,
                   net, reply>>

Next ==
    \/ \E opts \in InitOptions : StartInit(opts)
    \/ DryRunNames
    \/ FetchListNamesFails
    \/ \E catalog \in Catalogs : \E zone \in Zones : FetchListNames(catalog, zone)
    \/ \E zone \in Zones : BeginList(zone)
    \/ \E response \in Responses : Checkpoint(response)
    \/ FinishInit
    \/ \E opts \in UpdateOptions : StartUpdate(opts)
    \/ \E response \in Responses : UpdateList(response)
    \/ FinishUpdate

Spec == Init /\ [][Next]_vars

\* The steps of a started run.  A started script runs to its end: every await
\* (the 12 s sleep, the fetch) settles, and nothing else blocks.
RunStep ==
    \/ DryRunNames
    \/ FetchListNamesFails
    \/ \E catalog \in Catalogs : \E zone \in Zones : FetchListNames(catalog, zone)
    \/ \E zone \in Zones : BeginList(zone)
    \/ \E response \in Responses : Checkpoint(response)
    \/ FinishInit
    \/ \E response \in Responses : UpdateList(response)
    \/ FinishUpdate

FairSpec == Spec /\ WF_vars(RunStep)

(***************************************************************************)
(* SpecBackfill: runs of init-db.js alone (all lists, no option) over      *)
(* catalogs whose first list has three weekly checkpoints, so that a run   *)
(* reaches the daily ceiling before its last checkpoints.                  *)
(***************************************************************************)
LongDescriptor(name) == [Descriptor(name) EXCEPT !.newest_published_date = 15]

LongCatalogs == {<<LongDescriptor("A")>>, <<LongDescriptor("A"), Descriptor("B")>>}

NextBackfill ==
    \/ StartInit(NoOptions)
    \/ FetchListNamesFails
    \/ \E catalog \in LongCatalogs : \E zone \in Zones : FetchListNames(catalog, zone)
    \/ \E zone \in Zones : BeginList(zone)
    \/ \E response \in Responses : Checkpoint(response)
    \/ FinishInit

SpecBackfill == Init /\ [][NextBackfill]_vars

(***************************************************************************)
(* SpecResolve: the resolver applied to arbitrary records, one call per    *)
(* step, each in its own committed transaction.                            *)
(***************************************************************************)
\* The records handed to the resolver: every combination of identifiers and
\* titles (rank is not read by it; a record without title makes the statement
\* throw and is part of Snapshots).
\* (the isbns array of the record is varied in SpecAlias)
ResolveInputs ==
    {b \in BookData : b.rank = "r1" /\ b.title # Null /\ b.isbns = <<>>}

LastTwo(s) == IF Len(s) <= 2 THEN s ELSE SubSeq(s, Len(s) - 1, Len(s))

Identifierless(bookData) ==
    ~Truthy(bookData.primary_isbn13) /\ ~Truthy(bookData.primary_isbn10)

Resolve(bookData) ==
    LET r == FindOrCreateBook(Store, bookData)
    IN  /\ pc = "idle"
        /\ Len(r.d.books) <= MaxBookRows
        /\ Commit(r.d)
        /\ calls' = LastTwo(Append(calls,
                        [bookData |-> bookData, ok |-> r.ok, id |-> r.id,
                         found |-> FindBook(Store, bookData) # {}]))
        /\ nullIds' = IF r.ok /\ Identifierless(bookData)
                      THEN Append(nullIds, r.id) ELSE nullIds
        /\ UNCHANGED <<procVars, last, weekly, net, reply>>

NextResolve == \E bookData \in ResolveInputs : Resolve(bookData)

SpecResolve == Init /\ [][NextResolve]_vars

(***************************************************************************)
(* The resolver called with records that carry identifier aliases: every   *)
(* 13-digit identifier (or none) with none, one or two aliases.             *)
(***************************************************************************)
AliasInputs ==
    {b \in BookData : b.rank = "r1" /\ b.title = "t1" /\ b.primary_isbn10 = Null}

NextAlias == \E bookData \in AliasInputs : Resolve(bookData)

SpecAlias == Init /\ [][NextAlias]_vars

(***************************************************************************)
(* SpecDates: the checkpoint dates of fetchListHistory for arbitrary date  *)
(* ranges and time zones of the process.                                   *)
(***************************************************************************)
MaxDay == 60          \* the last day of the calendar of the model

\* --since: absent, or a day of the calendar.
Sinces == {NullDate} \cup 1..MaxDay

\* One computation per behaviour: fetchListHistory computes the dates of a
\* list once, from its arguments alone.
ComputeDates(oldest, newest, sinceDate, zone) ==
    /\ pc = "idle"
    /\ weekly = NoWeekly
    /\ weekly' = [oldest |-> oldest, newest |-> newest, since |-> sinceDate,
                  zone |-> zone,
                  dates |-> DatesOf([oldest_published_date |-> oldest,
                                     newest_published_date |-> newest],
                                    sinceDate, zone)]
    /\ UNCHANGED <<storeVars, procVars, last, calls, nullIds, net, reply>>

NextDates ==
    /\ weekly = NoWeekly
    /\ \E oldest \in 1..MaxDay : \E newest \in oldest..MaxDay :
          \E sinceDate \in Sinces : \E zone \in Zones :
              ComputeDates(oldest, newest, sinceDate, zone)

SpecDates == Init /\ [][NextDates]_vars

(***************************************************************************)
(* SpecFetch: rateLimitedFetch step by step, with a clock.  One process    *)
(* (a run of init-db.js or of update-db.js) calls the client again and     *)
(* again; each call is awaited before the next is made.                    *)
(***************************************************************************)
MaxTime == 20         \* the clock stops here
MaxCalls == 6         \* calls of one process

OkResponse == [kind |-> "ok", books |-> <<>>, published_date |-> NullDate]

\* rateLimitedFetch of the running script, as one step.
RateLimitedFetch(count, response) ==
    IF script = "init" THEN RateLimitedFetchInit(count, response)
    ELSE RateLimitedFetchUpdate(count, response)

\* node scripts/init-db.js or node scripts/update-db.js: requestCount = 0,
\* startTime = Date.now().
StartProcess(s) ==
    /\ pc = "idle"
    /\ script = "none"
    /\ script' = s
    /\ requestCount' = 0
    /\ net' = NoNet
    /\ UNCHANGED <<storeVars, pc, options, queue, cur, dates, errorCount, exitCode,
                   runs, selected, attempted, last, calls, nullIds, weekly,
                   reply>>

\* Time passes (in every phase: asleep, waiting for the response, or in the
\* caller between two calls).
Tick ==
    /\ script # "none"
    /\ net.now < MaxTime
    /\ net' = [net EXCEPT !.now = @ + 1]
    /\ UNCHANGED <<storeVars, procVars, last, calls, nullIds, weekly, reply>>

\* The caller calls rateLimitedFetch: the ceiling test, then the sleep starts.
FetchEnter ==
    /\ script # "none"
    /\ net.phase = "idle"
    /\ requestCount < MaxCalls
    /\ IF RateLimitedFetch(requestCount, OkResponse).result = "quota"
       THEN net' = [net EXCEPT !.result = "quota"]
       ELSE net' = [net EXCEPT !.phase = "sleeping", !.sleepFrom = net.now,
                               !.result = "none"]
    /\ UNCHANGED <<storeVars, procVars, last, calls, nullIds, weekly, reply>>

\* The sleep is over: requestCount++ and fetch(url) goes out.
FetchWake ==
    /\ net.phase = "sleeping"
    /\ SleepOver(net.now, net.sleepFrom)
    /\ requestCount' = RateLimitedFetch(requestCount, OkResponse).count
    /\ net' = [net EXCEPT !.phase = "calling", !.inFlight = @ + 1,
                           !.started = Append(@, net.now)]
    /\ UNCHANGED <<storeVars, pc, script, options, queue, cur, dates, errorCount,
                   exitCode, runs, selected, attempted, last, calls, nullIds, weekly,
                   reply>>

\* The response arrives: the call returns the body or throws.
FetchSettle(kind) ==
    /\ net.phase = "calling"
    /\ net' = [net EXCEPT !.phase = "idle", !.inFlight = @ - 1, !.result = kind]
    /\ UNCHANGED <<storeVars, procVars, last, calls, nullIds, weekly, reply>>

NextFetch ==
    \/ \E s \in {"init", "update"} : StartProcess(s)
    \/ Tick
    \/ FetchEnter
    \/ FetchWake
    \/ \E kind \in {"ok", "http", "nodata"} : FetchSettle(kind)

SpecFetch == Init /\ [][NextFetch]_vars

(***************************************************************************)
(* api/db-query.js: the read-only query API.  A query function returns its *)
(* result or throws an Error with a message.                               *)
(***************************************************************************)
Returned(result) == [ok |-> TRUE, message |-> NoMessage, result |-> result]
Thrown(text, key) == [ok |-> FALSE, message |-> <<text, key>>, result |-> NoResult]

Max(S) == CHOOSE x \in S : \A y \in S : y <= x

\* SELECT MAX(published_date) FROM rankings WHERE list_id = ?   (NullDate: none)
LatestDate(d, listId) ==
    LET ds == {r.published_date : r \in {x \in d.rankings : x.list_id = listId}}
    IN  IF ds = {} THEN NullDate ELSE Max(ds)

\* The rankings of a list for a date (joined with their books).
BooksOn(d, listId, date) ==
    {r \in d.rankings : r.list_id = listId /\ r.published_date = date}

\* A queryCurrent that answers for a list it does not find.
QueryCurrentNoCheck(d, listNameEncoded) == Returned(NoResult)

QueryCurrent(d, listNameEncoded) ==
    LET listId == ListIdOf(d, listNameEncoded)
        latest == LatestDate(d, listId)
    IN  IF listId = 0 THEN Thrown("List not found: ", listNameEncoded)
        ELSE IF latest = NullDate THEN Returned(NoResult)
        ELSE Returned([published_date |-> latest,
                       count |-> Cardinality(BooksOn(d, listId, latest))])

QueryHistory(d, listNameEncoded, date) ==
    LET listId == ListIdOf(d, listNameEncoded)
        targetDate == IF date # NullDate THEN date ELSE LatestDate(d, listId)
    IN  IF listId = 0 THEN Thrown("List not found: ", listNameEncoded)
        ELSE IF targetDate = NullDate THEN Returned(NoResult)
        ELSE Returned([published_date |-> targetDate,
                       count |-> Cardinality(BooksOn(d, listId, targetDate))])

QueryDates(d, listNameEncoded) ==
    LET listId == ListIdOf(d, listNameEncoded)
    IN  IF listId = 0 THEN Thrown("List not found: ", listNameEncoded)
        ELSE Returned([published_date |-> NullDate,
                       count |-> Cardinality({r.published_date :
                                    r \in {x \in d.rankings : x.list_id = listId}})])

\* SELECT * FROM books WHERE primary_isbn13 = ? OR primary_isbn10 = ? LIMIT 1
QueryBook(d, isbn) ==
    LET found == {i \in BookIds(d) : \/ d.books[i].primary_isbn13 = isbn
                                     \/ d.books[i].primary_isbn10 = isbn}
    IN  IF found = {} THEN Thrown("Book not found with ISBN: ", isbn)
        ELSE Returned([published_date |-> NullDate,
                       count |-> Cardinality({r \in d.rankings :
                                                r.book_id = Min(found)})])

QueryLists(d) ==
    Returned([published_date |-> NullDate, count |-> Cardinality(d.lists)])

QueryStats(d) ==
    Returned([published_date |-> NullDate, count |-> Cardinality(d.rankings)])

\* WHERE b.title LIKE ? (a title is one word here)
QuerySearch(d, searchTerm) ==
    Returned([published_date |-> NullDate,
              count |-> Cardinality({i \in BookIds(d) :
                                       d.books[i].title = searchTerm})])

\* The switch of the handler: a missing parameter is answered with 400
\* before any query runs.
Switch(d, req) ==
    LET missing(p) == [ok |-> FALSE, message |-> <<"Missing required parameter: ", p>>,
                       result |-> NoResult]
    IN  CASE req.action = "lists" -> QueryLists(d)
          [] req.action = "current" ->
                IF ~Truthy(req.list) THEN missing("list")
                ELSE QueryCurrent(d, req.list)
          [] req.action = "history" ->
                IF ~Truthy(req.list) THEN missing("list")
                ELSE QueryHistory(d, req.list, req.date)
          [] req.action = "book" ->
                IF ~Truthy(req.isbn) THEN missing("isbn")
                ELSE QueryBook(d, req.isbn)
          [] req.action = "stats" -> QueryStats(d)
          [] req.action = "dates" ->
                IF ~Truthy(req.list) THEN missing("list")
                ELSE QueryDates(d, req.list)
          [] req.action = "search" ->
                IF ~Truthy(req.q) THEN missing("q")
                ELSE QuerySearch(d, req.q)
          [] OTHER -> [ok |-> FALSE, message |-> <<"Invalid action", Null>>,
                       result |-> NoResult]

\* handler(req, res).  opens: new Database(DB_PATH, {readonly: true}) opened
\* the file (it throws inside the try block when it cannot).
Handler(d, opens, req) ==
    IF req.method = "OPTIONS" THEN Res(200, Null, NoMessage, NoResult)
    ELSE IF req.method # "GET"
    THEN Res(405, "Method not allowed", NoMessage, NoResult)
    ELSE IF ~opens
    THEN Res(500, "Database query failed",
             <<"unable to open database file", Null>>, NoResult)
    ELSE LET r == Switch(d, req)
         IN  IF r.ok THEN Res(200, Null, NoMessage, r.result)
             ELSE IF r.message[1] \in {"Missing required parameter: ", "Invalid action"}
             THEN Res(400, r.message[1], <<Null, r.message[2]>>, NoResult)
             ELSE Res(500, "Database query failed", r.message, NoResult)

\* The requests: every action, with the parameter it reads absent, naming
\* a row that may be in the store, or naming one that never is ("Z", "13z").
ListActions == {"current", "history", "dates"}
Requests ==
    [method : {"GET"}, action : ListActions, list : {Null, "A", "B", "Z"},
     date : {NullDate}, isbn : {Null}, q : {Null}]
    \cup [method : {"GET"}, action : {"history"}, list : {"A", "Z"},
          date : {1}, isbn : {Null}, q : {Null}]
    \cup [method : {"GET"}, action : {"book"}, list : {Null}, date : {NullDate},
          isbn : {Null, "13a", "13b", "13z"}, q : {Null}]
    \cup [method : {"GET"}, action : {"search"}, list : {Null}, date : {NullDate},
          isbn : {Null}, q : {Null, "t1"}]
    \cup [method : {"GET", "POST", "OPTIONS"}, action : {"lists", "stats", "other"},
          list : {Null}, date : {NullDate}, isbn : {Null}, q : {Null}]

\* One request served.  The API is a process of its own: it can be called
\* at any time, while a script runs or not.
Query(req, opens) ==
    /\ reply' = [req |-> req, opens |-> opens, res |-> Handler(Store, opens, req)]
    /\ UNCHANGED <<storeVars, procVars, last, calls, nullIds, weekly, net>>

\* The store the API reads is filled by a backfill.
QuerySnapshots ==
    {[kind |-> "http", books |-> <<>>, published_date |-> NullDate],
     [kind |-> "ok", books |-> <<BookX("r1")>>, published_date |-> 1],
     [kind |-> "ok", books |-> <<BookNoRank, BookX("r1")>>, published_date |-> 8]}

NextQuery ==
    \/ StartInit(NoOptions)
    \/ \E catalog \in Catalogs : FetchListNames(catalog, "UTC")
    \/ BeginList("UTC")
    \/ \E snapshot \in QuerySnapshots : Checkpoint(snapshot)
    \/ FinishInit
    \/ \E req \in Requests : \E opens \in BOOLEAN : Query(req, opens)

SpecQuery == Init /\ [][NextQuery]_vars

(***************************************************************************)
(* Properties                                                              *)
(***************************************************************************)
\* A step that is one ingestion attempt (a backfill checkpoint or an update
\* of one list): it adds its (list, date) pair to attempted.
AttemptStep == attempted' # attempted /\ attempted' # {}

Triple(r) == <<r.list_id, r.book_id, r.published_date>>

\* C1: after any sequence of backfill and update runs (repeated dates and
\* --force included) the rankings table holds at most one row for every
\* (list_id, book_id, published_date) triple.
C1_RankingTripleUnique ==
    \A r1 \in rankings : \A r2 \in rankings : Triple(r1) = Triple(r2) => r1 = r2

\* A forced update has just written a ranking whose triple already had a row.
C1_Witness ==
    /\ last.kind = "update"
    /\ options.force
    /\ last.outcome = "success"
    /\ last.replaced > 0

\* The rankings the store held for the list and published date of the
\* attempt this step makes, before the step.
ExistingForAttempt ==
    {r \in rankings : /\ r.list_id = ListIdOf(Store, last'.list)
                      /\ r.published_date = last'.published_date}

\* C2: re-running ingestion for a date whose snapshot was already ingested
\* (every book of the fetched snapshot already has its ranking row) inserts no
\* new ranking row and is reported as skipped: not as failed, and not as a
\* success with a non-zero records-written count.
C2_ReingestIsSkipped ==
    [][(/\ AttemptStep
        /\ last'.fetch = "ok"
        /\ last'.books > 0
        /\ ExistingForAttempt # {}
        /\ last'.outcome = "skipped" \/ last'.replaced = last'.books)
       => /\ Cardinality(rankings') = Cardinality(rankings)
          /\ last'.outcome = "skipped"
          /\ last'.rankingsAdded = 0]_vars

\* C3: a ranking write for a triple that already has a row is a no-op: the
\* stored row (ranking_id and observation fields) stays as it is, and the write
\* is not counted in the records_added of the attempt's sync_log row.
C3_DuplicateWriteIsNoOp ==
    [][AttemptStep
       => /\ \A r \in rankings :
                (\E q \in rankings' : Triple(q) = Triple(r)) => r \in rankings'
          /\ last'.outcome = "success"
             => sync_log'[Len(sync_log')].records_added =
                  Cardinality({q \in rankings' :
                                 \A r \in rankings : Triple(q) # Triple(r)})]_vars

\* C8: the writes of a checkpoint are all-or-nothing: when a write of the
\* attempt fails (findOrCreateBook throws, or the ranking insert of one book
\* of the snapshot throws) the store holds none of the book or ranking rows of
\* that attempt, and the rows of earlier checkpoints are as they were.
C8_CheckpointAllOrNothing ==
    [][(AttemptStep /\ (last'.outcome = "error" \/ last'.rankFailed > 0))
       => books' = books /\ rankings' = rankings]_vars

\* C9: a backfill checkpoint whose fetch comes back with a non-success
\* response appends exactly one sync_log row, with status error, an error
\* message, the list and the checkpoint date, and writes no book or ranking row.
C9_FetchFailureLogged ==
    [][(AttemptStep /\ last'.kind = "init" /\ last'.fetch = "http")
       => /\ Len(sync_log') = Len(sync_log) + 1
          /\ SubSeq(sync_log', 1, Len(sync_log)) = sync_log
          /\ LET row == sync_log'[Len(sync_log')]
             IN  /\ row.sync_type = "init"
                 /\ row.status = "error"
                 /\ row.error_message # Null
                 /\ row.list_name_encoded = cur.name
                 /\ row.published_date = Head(dates)
          /\ books' = books
          /\ rankings' = rankings
          /\ lists' = lists]_vars

\* A checkpoint fetch has failed in a store that already holds books and
\* rankings, and its error row is the last of sync_log.
C9_Witness ==
    /\ last.kind = "init"
    /\ last.fetch = "http"
    /\ Len(books) > 0
    /\ rankings # {}
    /\ sync_log[Len(sync_log)].status = "error"

\* C10: a failed attempt (fetch or write) does not stop the run: the run it
\* happens in goes on and ends having attempted every selected (list,
\* checkpoint) pair, in the backfill and in the update.
C10_FailureDoesNotStopRun ==
    \A n \in 1..MaxRuns :
        (runs = n /\ pc # "idle" /\ last.outcome = "error")
        ~> (runs = n /\ pc = "idle" /\ attempted = selected)

\* A run has ended with every selected pair attempted although an attempt
\* other than its last one failed.
C10_Witness ==
    /\ pc = "idle"
    /\ exitCode # Null
    /\ attempted = selected
    /\ Cardinality(attempted) >= 2
    /\ \E i \in 1..Len(sync_log) :
          /\ sync_log[i].status = "error"
          /\ i < Len(sync_log)
    /\ last.outcome = "success"

\* An attempt of update-db.js whose fetch returned a snapshot for a list and
\* published date the store already holds rankings for.
UpdateOfStoredDate ==
    /\ AttemptStep
    /\ last'.kind = "update"
    /\ last'.fetch = "ok"
    /\ ExistingForAttempt # {}

\* C12: an update without --force of a list whose returned published date
\* already has a ranking in the store still makes the remote call, writes or
\* modifies no book and no ranking row, and is reported as skipped: a success
\* (errorCount is not incremented), not an error.
C12_UpdateSkipsStoredDate ==
    [][(UpdateOfStoredDate /\ ~options.force)
       => /\ requestCount' = requestCount + 1
          /\ books' = books
          /\ rankings' = rankings
          /\ last'.outcome = "skipped"
          /\ errorCount' = errorCount]_vars

\* An update without --force has skipped a snapshot that ranks a book under
\* another rank than the stored one (a write would have changed the row).
C12_Witness ==
    /\ last.kind = "update"
    /\ ~options.force
    /\ last.outcome = "skipped"
    /\ last.books > 0
    /\ requestCount > 0
    /\ \E r \in rankings : /\ r.list_id = ListIdOf(Store, last.list)
                            /\ r.published_date = last.published_date
                            /\ r.rank = "r1"

\* The rankings written by the attempt this step makes: the rows of its list
\* and published date with a fresh ranking_id.
WrittenByAttempt ==
    {r \in rankings' : /\ r.list_id = ListIdOf(Store, last'.list)
                       /\ r.published_date = last'.published_date
                       /\ r.ranking_id > seq.rankings}

\* C13: with --force the skip is overridden: an update of a list whose
\* returned published date already has rankings is never skipped; unless a
\* write of the attempt throws, every book of the snapshot is resolved and its
\* ranking (re)written, and one success row is appended to sync_log.
C13_ForceOverridesSkip ==
    [][(UpdateOfStoredDate /\ options.force)
       => /\ last'.outcome \in {"success", "error"}
          /\ (last'.outcome = "error") = (last'.rankingsAdded + last'.rankFailed < last'.books)
          /\ (last'.outcome = "success" /\ last'.rankFailed = 0)
             => /\ Cardinality(WrittenByAttempt) = last'.books
                /\ \A r \in WrittenByAttempt : r.book_id \in 1..Len(books')
                /\ Len(sync_log') = Len(sync_log) + 1
                /\ sync_log'[Len(sync_log')].status = "success"
                /\ sync_log'[Len(sync_log')].sync_type = "update"
                /\ sync_log'[Len(sync_log')].list_name_encoded = last'.list
                /\ sync_log'[Len(sync_log')].records_added = last'.books]_vars

\* A forced update has written the two rankings of a snapshot whose
\* published date the store already held, replacing a stored row.
C13_Witness ==
    /\ last.kind = "update"
    /\ options.force
    /\ last.outcome = "success"
    /\ last.books = 2
    /\ last.rankingsAdded = 2
    /\ last.replaced = 1
    /\ sync_log[Len(sync_log)].status = "success"

\* C14: an update run makes exactly one remote call per row of lists: one
\* call for every list it has gone through, whatever the outcome (updated,
\* skipped or failed), and as many calls as there are lists when it ends.
C14_OneCallPerList ==
    script = "update"
    => /\ requestCount = Cardinality(attempted)
       /\ requestCount + Len(queue) = Cardinality(lists)
       /\ pc = "idle" => requestCount = Cardinality(lists)

\* An update run over two lists has ended after one list failed and the
\* other was skipped.
C14_Witness ==
    /\ script = "update"
    /\ pc = "idle"
    /\ Cardinality(lists) = 2
    /\ requestCount = 2
    /\ errorCount = 1
    /\ last.outcome = "skipped"

\* C15: every ingestion attempt (a backfill checkpoint, an update of one
\* list) appends exactly one row to sync_log, whatever its outcome: success,
\* failure, skipped as already present, or a response carrying no books.
C15_OneSyncRecordPerAttempt ==
    [][AttemptStep
       => /\ Len(sync_log') = Len(sync_log) + 1
          /\ SubSeq(sync_log', 1, Len(sync_log)) = sync_log]_vars

\* C16: sync_log is append-only: over any sequence of backfill and update
\* runs every step leaves the rows it holds where and as they are (the rows
\* of before are a prefix of the rows of after).
C16_SyncLogAppendOnly ==
    [][/\ Len(sync_log') >= Len(sync_log)
       /\ SubSeq(sync_log', 1, Len(sync_log)) = sync_log]_vars

\* A backfill and an update have both logged attempts on the same list, a
\* failed one and a successful one among them.
C16_Witness ==
    \E i \in 1..Len(sync_log) : \E j \in 1..Len(sync_log) :
        /\ i < j
        /\ sync_log[i].sync_type = "init"
        /\ sync_log[j].sync_type = "update"
        /\ sync_log[i].list_name_encoded = sync_log[j].list_name_encoded
        /\ sync_log[i].status = "error"
        /\ sync_log[j].status = "success"
        /\ Len(sync_log) >= 3

\* C18: exhausting the daily call budget aborts the whole run: after the
\* first fetch of a run that fails with the quota error no further checkpoint
\* or list is attempted in that run, and no further row is appended to
\* sync_log.
C18_QuotaAbortsRun ==
    [][last.fetch = "quota"
       => /\ ~AttemptStep
          /\ sync_log' = sync_log]_vars

\* A step that ends a run: main returns or calls process.exit.
RunEnds == pc # "idle" /\ pc' = "idle"

\* C19: a run of either script in which at least one attempt failed ends
\* with a non-zero exit status, and the rows committed by its successful
\* attempts are still there at exit: a failing attempt removes no book and
\* no ranking, and the end of the run leaves the store as it is.
C19_FailedRunExitsNonZero ==
    [][/\ (RunEnds /\ last.failures > 0)
          => /\ exitCode' = "1"
             /\ storeVars' = storeVars
       /\ (AttemptStep /\ last'.outcome = "error")
          => /\ books' = books
             /\ rankings' = rankings]_vars

\* The (list, date) pairs the running script still has to fetch.
ToDo ==
    {<<cur.name, dates[i]>> : i \in DOMAIN dates}
    \cup (IF script = "update"
          THEN {<<queue[i].list_name_encoded, Current>> : i \in DOMAIN queue}
          ELSE {})

\* C21: no retry: within a run every (list, checkpoint date) of the backfill
\* and every list of the update is fetched at most once: the calls made are
\* no more than the pairs attempted (plus the catalog call of the backfill),
\* and a pair that was attempted, failed or not, is never to be fetched again.
C21_NoRetry ==
    /\ script = "init" => requestCount <= 1 + Cardinality(attempted)
    /\ script = "update" => requestCount <= Cardinality(attempted)
    /\ ToDo \cap attempted = {}
    /\ script = "init"
       => \A i \in DOMAIN queue : \A pair \in attempted :
             pair[1] # queue[i].list_name_encoded

\* A run goes on after two failed fetches: the pairs that failed are behind
\* it, another one is still to be fetched.
C21_Witness ==
    /\ pc # "idle"
    /\ last.failures = 2
    /\ last.fetch = "http"
    /\ Cardinality(attempted) = 2
    /\ ToDo # {}

C29_SuccessXorError ==
    [][(AttemptStep /\ last'.fetch = "ok")
       => LET added == SubSeq(sync_log', Len(sync_log) + 1, Len(sync_log'))
          IN  /\ SubSeq(sync_log', 1, Len(sync_log)) = sync_log
              /\ Len(added) <= 1
              /\ last'.outcome = "success"
                 => Len(added) = 1 /\ added[1].status = "success"
              /\ last'.outcome = "error"
                 => /\ Len(added) = 1 /\ added[1].status = "error"
                    /\ books' = books /\ rankings' = rankings /\ lists' = lists
              /\ last'.outcome \in {"success", "error", "skipped"}]_vars

\* The transaction of an attempt rolled back after an earlier attempt on
\* the same list had committed: the log ends in a success row of before and
\* the error row of this attempt.
C29_Witness ==
    /\ last.fetch = "ok"
    /\ last.outcome = "error"
    /\ last.books = 2
    /\ Len(sync_log) >= 2
    /\ sync_log[Len(sync_log)].status = "error"
    /\ sync_log[Len(sync_log) - 1].status = "success"
    /\ sync_log[Len(sync_log) - 1].list_name_encoded = last.list

\* C22: after any sequence of catalog syncs the table lists holds exactly one
\* row for every encoded name that was ever synced: no step removes a name,
\* no name has two rows, and a sync of the whole catalog leaves the names
\* that were there together with the names of the catalog.
C22_CatalogSyncKeepsLists ==
    [][LET names == {l.list_name_encoded : l \in lists}
           names2 == {l.list_name_encoded : l \in lists'}
       IN  /\ names \subseteq names2
           /\ Cardinality(lists') = Cardinality(names2)
           /\ (pc = "names" /\ ~options.dryRun /\ options.lists = <<>>)
              => names2 = names \cup {queue'[i].list_name_encoded :
                                       i \in DOMAIN queue'}]_vars

\* The second run has synced a catalog of one list over a store of two
\* lists, and both rows are there.
C22_Witness ==
    /\ runs = 2
    /\ script = "init"
    /\ pc = "lists"
    /\ options.lists = <<>>
    /\ Len(queue) = 1
    /\ Cardinality(lists) = 2

\* C23: a catalog sync over a store that holds rankings loses none of
\* them: every ranking row is there after the sync and the list row it
\* references has the encoded name it had before.
C23_CatalogSyncKeepsRankings ==
    [][pc = "names"
       => \A r \in rankings :
             /\ r \in rankings'
             /\ \A l \in lists : l.list_id = r.list_id
                   => \E l2 \in lists' :
                         /\ l2.list_id = r.list_id
                         /\ l2.list_name_encoded = l.list_name_encoded]_vars

(***************************************************************************)
(* Properties of the checkpoint dates, checked under SpecDates             *)
(***************************************************************************)
\* oldest, oldest + 7, ... up to the last such day that is not after newest.
ExactWeekly(oldest, newest) ==
    [i \in 1..((newest - oldest) \div 7 + 1) |-> oldest + 7 * (i - 1)]

\* C11: with no since date, the checkpoint dates of a list are exactly
\* oldest, oldest + 7 days, oldest + 14 days, ... up to and including the
\* last such date that is not after newest (4 dates for a range of 21 days).
C11_WeeklyCheckpoints ==
    (weekly # NoWeekly /\ weekly.since = NullDate)
    => weekly.dates = ExactWeekly(weekly.oldest, weekly.newest)

\* The instance of C11 the claim names: a range of exactly three weeks
\* starting on day 1 gives the 4 dates 1, 8, 15, 22 in every zone.
ThreeWeeksFromDayOne ==
    (weekly.oldest = 1 /\ weekly.newest = 22 /\ weekly.since = NullDate)
    => weekly.dates = <<1, 8, 15, 22>>

\* C26: every checkpoint date of a list lies within the date range of the
\* list, [oldest, newest], with or without a since date: a since date before
\* oldest gives no checkpoint before oldest, a since date after newest gives
\* no checkpoint at all.
C26_CheckpointsWithinRange ==
    weekly # NoWeekly
    => /\ \A i \in DOMAIN weekly.dates :
             weekly.oldest <= weekly.dates[i] /\ weekly.dates[i] <= weekly.newest
       /\ weekly.since > weekly.newest => weekly.dates = <<>>

(***************************************************************************)
(* Properties of the fetch client, checked under SpecFetch                 *)
(***************************************************************************)
\* Every counted request is a call that went out.
CallsMade == Len(net.started)

\* C17 as stated: in a run of either script the calls made never exceed the
\* ceiling: with the counter at the ceiling no call is asleep or in flight.
C17_CeilingInEveryRun ==
    /\ CallsMade <= MAX_REQUESTS_PER_DAY
    /\ requestCount >= MAX_REQUESTS_PER_DAY => net.phase # "sleeping"

\* C17 as amended: in a run of init-db.js, once requestCount has reached
\* the ceiling a further fetch fails with the quota error before the sleep and
\* before the call, so the calls made never exceed the ceiling (update-db.js
\* has no ceiling).
C17_CeilingInBackfill ==
    script = "init"
    => /\ CallsMade <= MAX_REQUESTS_PER_DAY
       /\ requestCount = CallsMade
       /\ requestCount >= MAX_REQUESTS_PER_DAY => net.phase # "sleeping"
       /\ net.result = "quota"
          => /\ requestCount = MAX_REQUESTS_PER_DAY
             /\ net.phase = "idle"
             /\ net.inFlight = 0

\* A fetch of init-db.js has failed with the quota error after as many calls
\* as the ceiling allows, and time has passed since.
C17_Witness ==
    /\ script = "init"
    /\ net.result = "quota"
    /\ CallsMade = MAX_REQUESTS_PER_DAY
    /\ net.now > net.started[CallsMade] + RATE_LIMIT_DELAY

\* C20: remote calls are sequential and rate limited: at most one call is in
\* flight, every call goes out a full delay or more after the process started
\* and after the call before it, and so six consecutive calls span a minute
\* or more (at most 5 calls in a minute).
C20_SequentialAndRateLimited ==
    /\ net.inFlight <= 1
    /\ \A i \in 1..CallsMade :
          /\ i = 1 => net.started[i] >= RATE_LIMIT_DELAY
          /\ i > 1 => net.started[i] - net.started[i - 1] >= RATE_LIMIT_DELAY
          /\ i > 5 => net.started[i] - net.started[i - 5] >= 5 * RATE_LIMIT_DELAY

\* Six calls have gone out as fast as the client lets them, the sixth a
\* minute after the first, and the sixth is in flight.
C20_Witness ==
    /\ CallsMade = 6
    /\ net.started[6] - net.started[1] = 5 * RATE_LIMIT_DELAY
    /\ net.inFlight = 1

(***************************************************************************)
(* Properties of the resolver, checked under SpecResolve                   *)
(***************************************************************************)
LastCall == calls[Len(calls)]

HasIdentifier(bookData) == ~Identifierless(bookData)

\* The rows of books that carry an identifier of the record.
RowsByIsbn13(bookData) == SelectByIsbn13(Store, bookData.primary_isbn13)
RowsByIsbn10(bookData) == SelectByIsbn10(Store, bookData.primary_isbn10)

ResolveStep == Len(calls') >= 1 /\ calls'[Len(calls')].ok

Matches(bookData) == RowsByIsbn13(bookData) \cup RowsByIsbn10(bookData)

\* C5: when a primary identifier of the record matches an existing book, the
\* resolver returns the id of such a book and inserts no row, whatever the
\* title; afterwards the descriptive fields of that book are the record's and
\* the identifiers of every row are what they were (no other row changes).
C5_FoundBookOverwritten ==
    [][LET c == calls'[Len(calls')]
       IN  (ResolveStep /\ Matches(c.bookData) # {})
           => /\ c.id \in Matches(c.bookData)
              /\ Len(books') = Len(books)
              /\ books'[c.id].title = c.bookData.title
              /\ \A i \in 1..Len(books) :
                    /\ books'[i].primary_isbn13 = books[i].primary_isbn13
                    /\ books'[i].primary_isbn10 = books[i].primary_isbn10
                    /\ i # c.id => books'[i] = books[i]]_vars

\* A book found by its isbn10 under another isbn13 got the record's title:
\* the title differs from the one it was created with, the isbn13 is kept.
C5_Witness ==
    /\ Len(calls) = 2
    /\ calls[2].ok /\ calls[2].found
    /\ calls[1].ok /\ ~calls[1].found
    /\ calls[1].id = calls[2].id
    /\ calls[1].bookData.title # calls[2].bookData.title
    /\ Truthy(calls[1].bookData.primary_isbn13)
    /\ Truthy(calls[2].bookData.primary_isbn13)
    /\ calls[1].bookData.primary_isbn13 # calls[2].bookData.primary_isbn13
    /\ books[calls[2].id].title = calls[2].bookData.title
    /\ books[calls[2].id].primary_isbn13 = calls[1].bookData.primary_isbn13

\* C6: a record with neither identifier always takes the not-found branch:
\* the n resolutions of such records made so far returned n distinct ids, each
\* the id of a row of its own, whatever else the store holds.
C6_IdentifierlessAlwaysNew ==
    /\ \A i \in DOMAIN nullIds : \A j \in DOMAIN nullIds :
          i # j => nullIds[i] # nullIds[j]
    /\ \A i \in DOMAIN nullIds :
          /\ nullIds[i] \in 1..Len(books)
          /\ Identifierless(books[nullIds[i]])
    /\ Cardinality({i \in 1..Len(books) : Identifierless(books[i])}) = Len(nullIds)
    /\ (Len(calls) >= 1 /\ LastCall.ok /\ Identifierless(LastCall.bookData))
       => ~LastCall.found /\ LastCall.id = Len(books)

\* The same identifierless record (same title) resolved twice in a row into a
\* store that also holds a book with an identifier.
C6_Witness ==
    /\ Len(calls) = 2
    /\ calls[1].bookData = calls[2].bookData
    /\ Identifierless(calls[2].bookData)
    /\ calls[1].ok /\ calls[2].ok
    /\ Len(nullIds) >= 2
    /\ \E i \in 1..Len(books) : HasIdentifier(books[i])

\* C7 as stated: for every incoming record carrying an identifier, at most
\* one row of books matches it by either identifier format.
C7_OneRowMatchesEitherFormat ==
    \A b \in ResolveInputs :
        HasIdentifier(b) => Cardinality(Matches(b)) <= 1

\* C7 as amended: for every incoming record, at most one row of books has the
\* record's isbn13 and at most one row has its isbn10 (a record that carries
\* both may match two different rows, one per format).
C7_OneRowPerFormat ==
    \A b \in ResolveInputs :
        HasIdentifier(b) => /\ Cardinality(RowsByIsbn13(b)) <= 1
                            /\ Cardinality(RowsByIsbn10(b)) <= 1

\* After resolutions that have found a book by its isbn13 and by its isbn10, a
\* record matches one row by isbn13 and another row by isbn10.
C7_Witness ==
    \E b \in ResolveInputs :
        /\ Cardinality(RowsByIsbn13(b)) = 1
        /\ Cardinality(RowsByIsbn10(b)) = 1
        /\ RowsByIsbn13(b) # RowsByIsbn10(b)

\* C28: after any sequence of resolver calls from the empty store, no two
\* rows of books carry the same non-empty primary_isbn13, and no two carry
\* the same non-empty primary_isbn10.
C28_PrimaryIdentifiersUnique ==
    \A i \in 1..Len(books) : \A j \in 1..Len(books) :
        i # j => /\ Truthy(books[i].primary_isbn13)
                    => books[i].primary_isbn13 # books[j].primary_isbn13
                 /\ Truthy(books[i].primary_isbn10)
                    => books[i].primary_isbn10 # books[j].primary_isbn10

\* In a table of three rows a record carrying both identifiers was found by
\* its isbn10 in a row that has another isbn13, and no row was added for
\* it.
C28_Witness ==
    /\ Len(books) = 3
    /\ Len(calls) = 2
    /\ calls[2].found
    /\ Truthy(calls[2].bookData.primary_isbn13)
    /\ Truthy(calls[2].bookData.primary_isbn10)
    /\ books[calls[2].id].primary_isbn13 # calls[2].bookData.primary_isbn13
    /\ books[calls[2].id].primary_isbn10 = calls[2].bookData.primary_isbn10

(***************************************************************************)
(* Properties of the query API, checked under SpecQuery                    *)
(***************************************************************************)
\* The request names a list or a book identifier that is not in the store.
NamesAbsentKey(req) ==
    \/ /\ req.action \in ListActions
       /\ Truthy(req.list)
       /\ \A l \in lists : l.list_name_encoded # req.list
    \/ /\ req.action = "book"
       /\ Truthy(req.isbn)
       /\ \A i \in 1..Len(books) : /\ books[i].primary_isbn13 # req.isbn
                                    /\ books[i].primary_isbn10 # req.isbn

\* C25: a read query (GET) that names a list (current, history, dates) or a
\* book identifier (book) that is not in the store is answered with an error
\* response, never with a success response and never without a response;
\* when the store could be read, the message of the response names the
\* missing key.  No request changes the store.
C25_NotFoundIsDescriptiveError ==
    [][reply' # reply
       => LET req == reply'.req
              res == reply'.res
          IN  /\ storeVars' = storeVars
              /\ res.status \in {200, 400, 405, 500}
              /\ (req.method = "GET" /\ NamesAbsentKey(req))
                 => /\ res.status = 500
                    /\ res.error = "Database query failed"
                    /\ reply'.opens
                       => res.message \in
                             {<<"List not found: ", req.list>>,
                              <<"Book not found with ISBN: ", req.isbn>>}
                    /\ reply'.opens
                       => (res.message[1] = "List not found: ")
                             = (req.action \in ListActions)]_vars

\* Over a store that holds list A with rankings and the book 13a, a query
\* for the current snapshot of list Z was answered with the error that
\* names Z.
C25_Witness ==
    /\ \E l \in lists : l.list_name_encoded = "A"
    /\ rankings # {}
    /\ reply.req.action = "current"
    /\ reply.req.list = "Z"
    /\ reply.opens
    /\ reply.res.status = 500
    /\ reply.res.message = <<"List not found: ", "Z">>

(***************************************************************************)
(* Properties of the identifier aliases, checked under SpecAlias           *)
(***************************************************************************)
\* C27: alias rows are written only when a book is created.  A resolution
\* that creates a book from a record with k aliases appends exactly k rows
\* to isbns, the aliases of the record in order under the id of the new
\* book; a resolution that finds a book leaves isbns as it is.  No alias
\* row of before is changed or removed.
C27_AliasesOnlyOnCreate ==
    [][LET c == calls'[Len(calls')]
           k == Len(c.bookData.isbns)
       IN  ResolveStep
           => /\ SubSeq(isbns', 1, Len(isbns)) = isbns
              /\ IF c.found
                 THEN isbns' = isbns /\ Len(books') = Len(books)
                 ELSE /\ Len(books') = Len(books) + 1
                      /\ c.id = Len(books')
                      /\ Len(isbns') = Len(isbns) + k
                      /\ \A i \in 1..k :
                            isbns'[Len(isbns) + i] =
                                [book_id |-> c.id,
                                 isbn13 |-> c.bookData.isbns[i].isbn13,
                                 isbn10 |-> c.bookData.isbns[i].isbn10]]_vars

\* A book was created from a record with one alias and then a record with
\* two aliases resolved to an existing book: the table holds the aliases
\* of the created books only.
C27_Witness ==
    /\ Len(calls) = 2
    /\ ~calls[1].found /\ Len(calls[1].bookData.isbns) = 1
    /\ calls[2].found /\ Len(calls[2].bookData.isbns) = 2
    /\ Len(books) = 2
    /\ Len(isbns) = 3
    /\ isbns[3].book_id = 2

====
